---- MODULE Spec2Model ----
(***************************************************************************)
(* A model of pagerank.py: crawl, transition_model, sample_pagerank and    *)
(* iterate_pagerank.                                                       *)
(*                                                                         *)
(* Numbers.  Python computes with floats; the model computes with exact    *)
(* rationals <<numerator, denominator>> in lowest terms (denominator > 0), *)
(* so "sums to 1" is the mathematical statement the float code            *)
(* approximates.  Every state is one call of one function: Init draws the  *)
(* function called and its arguments, the actions are the steps of its     *)
(* body, and pc ends at "returned" (a value is in result), "raised" (an    *)
(* exception left the function) or "unexplored" (the exact arithmetic left *)
(* the range MaxDen the model explores; the code itself goes on).          *)
(***************************************************************************)
EXTENDS Integers, FiniteSets, Sequences, TLC

VARIABLES call, pc, directory, corpus, damping_factor, page, n,
          distribution, sample, i, pagerank, new_rank, result

vars == <<call, pc, directory, corpus, damping_factor, page, n,
          distribution, sample, i, pagerank, new_rank, result>>

(***************************************************************************)
(* Bounds of the model.                                                    *)
(***************************************************************************)
\* file names of a directory are 0..MaxFiles (0 is the one that is no .html)
MaxFiles == 2
\* link graphs given to transition_model and iterate_pagerank have at most
\* MaxPages pages
MaxPages == 3
\* link graphs walked by sample_pagerank have at most MaxWalkPages pages
MaxWalkPages == 2
\* sample counts n run from -1 to MaxSamples
MaxSamples == 3
\* largest common denominator of a rank vector the model explores
MaxDen == 1000000

(***************************************************************************)
(* Exact rational arithmetic, standing for Python's float operators.       *)
(***************************************************************************)
\* The operations are functions applied to their operands, so that TLC
\* evaluates an operand once however often the operation reads it.
Abs(a) == IF a < 0 THEN -a ELSE a

\* Euclid's algorithm
gcd[a \in Nat, b \in Nat] == IF b = 0 THEN a ELSE gcd[b, a % b]

GCD(a, b) == gcd[a, b]

LCM(a, b) == (a \div gcd[a, b]) * b

Q == Int \X Int

\* the rational num/den (den > 0) in lowest terms
norm[q \in Q] ==
    LET g == gcd[Abs(q[1]), q[2]]
    IN  <<q[1] \div g, q[2] \div g>>

Norm(num, den) == norm[<<num, den>>]

IntR(k) == <<k, 1>>

radd[x \in Q, y \in Q] ==
    LET l == LCM(x[2], y[2])
    IN  Norm(x[1] * (l \div x[2]) + y[1] * (l \div y[2]), l)

RAdd(x, y) == radd[x, y]

rneg[x \in Q] == <<-x[1], x[2]>>

RSub(x, y) == radd[x, rneg[y]]

rmul[x \in Q, y \in Q] == Norm(x[1] * y[1], x[2] * y[2])

RMul(x, y) == rmul[x, y]

\* x / y for y # 0
rdiv[x \in Q, y \in Q] ==
    IF y[1] < 0 THEN Norm(-(x[1] * y[2]), x[2] * (-y[1]))
                ELSE Norm(x[1] * y[2], x[2] * y[1])

RDiv(x, y) == rdiv[x, y]

rabs[x \in Q] == <<Abs(x[1]), x[2]>>

RAbs(x) == rabs[x]

rless[x \in Q, y \in Q] == x[1] * y[2] < y[1] * x[2]

RLess(x, y) == rless[x, y]

\* sum(f[x] for x in S)
RECURSIVE RSumOver(_, _)
RSumOver(f, S) ==
    IF S = {} THEN IntR(0)
    ELSE LET x == CHOOSE x \in S : TRUE
         IN  RAdd(f[x], RSumOver(f, S \ {x}))

RSum(f) == RSumOver(f, DOMAIN f)

\* the least common denominator of the values of f
RECURSIVE DenOver(_, _)
DenOver(f, S) ==
    IF S = {} THEN 1
    ELSE LET x == CHOOSE x \in S : TRUE
         IN  LCM(f[x][2], DenOver(f, S \ {x}))

CommonDen(f) == DenOver(f, DOMAIN f)

(***************************************************************************)
(* Inputs.                                                                 *)
(***************************************************************************)
\* convergence_threshold = 0.001 is 1 / ThresholdDen
ThresholdDen == 1000

convergence_threshold == <<1, ThresholdDen>>

\* DAMPING = 0.85
DAMPING == <<17, 20>>

\* damping factors a caller may pass: nothing in the code restricts them
Dampings == {<<0, 1>>, <<1, 10>>, <<1, 2>>, DAMPING, <<1, 1>>}

\* d in the open interval (0,1)
InUnitInterval(d) == 0 < d[1] /\ d[1] < d[2]

FileNames == 0 .. MaxFiles

\* filename.endswith(".html")
IsHtml(filename) == filename # 0

\* A directory: the names os.listdir returns and, for each .html file, the
\* link targets re.findall extracts from it (other files are never opened).
Directories ==
    UNION { [listing : {L},
             contents : [{f \in L : IsHtml(f)} -> SUBSET FileNames]]
            : L \in SUBSET FileNames }

\* link graphs over the pages 1..k, k <= maxPages, as crawl returns them
LinkGraphs(maxPages) ==
    UNION { {g \in [1 .. k -> SUBSET (1 .. k)] : \A p \in 1 .. k : p \notin g[p]}
            : k \in 0 .. maxPages }

NoDirectory == [listing |-> {}, contents |-> <<>>]

(***************************************************************************)
(* crawl                                                                   *)
(***************************************************************************)
\* first loop, without the removal of the file's own name
crawl_keep_self(dir) ==
    LET pages == [filename \in {f \in dir.listing : IsHtml(f)} |->
                      dir.contents[filename]]
    IN  [filename \in DOMAIN pages |->
            {link \in pages[filename] : link \in DOMAIN pages}]

crawl(dir) ==
    LET pages == [filename \in {f \in dir.listing : IsHtml(f)} |->
                      dir.contents[filename] \ {filename}]
    IN  [filename \in DOMAIN pages |->
            {link \in pages[filename] : link \in DOMAIN pages}]

(***************************************************************************)
(* transition_model                                                        *)
(***************************************************************************)
\* the else branch adds the damping mass to the other pages only
transition_model_not_self(corp, pg, d) ==
    LET len   == Cardinality(DOMAIN corp)
        base  == RDiv(RSub(IntR(1), d), IntR(len))
        links == corp[pg]
    IN  IF links # {}
        THEN LET link_prob == RDiv(d, IntR(Cardinality(links)))
             IN  [key \in DOMAIN corp |->
                     IF key \in links THEN RAdd(base, link_prob) ELSE base]
        ELSE [key \in DOMAIN corp |->
                 IF key = pg THEN base ELSE RAdd(base, RDiv(d, IntR(len)))]

\* link_prob computed from the size of the corpus
transition_model_link_n(corp, pg, d) ==
    LET len   == Cardinality(DOMAIN corp)
        base  == RDiv(RSub(IntR(1), d), IntR(len))
        links == corp[pg]
    IN  IF links # {}
        THEN LET link_prob == RDiv(d, IntR(len))
             IN  [key \in DOMAIN corp |->
                     IF key \in links THEN RAdd(base, link_prob) ELSE base]
        ELSE [key \in DOMAIN corp |-> RAdd(base, RDiv(d, IntR(len)))]

transition_model(corp, pg, d) ==
    LET len   == Cardinality(DOMAIN corp)
        base  == RDiv(RSub(IntR(1), d), IntR(len))
        links == corp[pg]
    IN  IF links # {}
        THEN LET link_prob == RDiv(d, IntR(Cardinality(links)))
             IN  [key \in DOMAIN corp |->
                     IF key \in links THEN RAdd(base, link_prob) ELSE base]
        ELSE [key \in DOMAIN corp |-> RAdd(base, RDiv(d, IntR(len)))]

(***************************************************************************)
(* sample_pagerank                                                         *)
(***************************************************************************)
\* random.choices(keys, weights): a key of weight 0 is never drawn
Choices(dist) == {key \in DOMAIN dist : dist[key][1] > 0}

\* the division by the size of the corpus instead of the sample count
Frequencies_len(counts, samples) ==
    [pg \in DOMAIN counts |->
        RDiv(counts[pg], IntR(Cardinality(DOMAIN counts)))]

\* for page in pagerank: pagerank[page] /= n   (n # 0)
Frequencies(counts, samples) ==
    [pg \in DOMAIN counts |-> RDiv(counts[pg], IntR(samples))]

(***************************************************************************)
(* iterate_pagerank                                                        *)
(***************************************************************************)
\* the inner loop over potential_linker: every linker that passes the test
\* adds damping_factor * pagerank[linker] / link_count to total (the sum is
\* exact, so the order of the loop does not show)
RECURSIVE AddLinkers(_, _, _, _, _, _)
AddLinkers(corp, d, rank, pg, total, linkers) ==
    IF linkers = {} THEN total
    ELSE LET potential_linker == CHOOSE q \in linkers : TRUE
             len        == Cardinality(DOMAIN corp)
             out        == Cardinality(corp[potential_linker])
             link_count == IF out # 0 THEN out ELSE len
             next ==
                 IF pg \in corp[potential_linker] \/ out = 0
                 THEN RAdd(total,
                           RDiv(RMul(d, rank[potential_linker]), IntR(link_count)))
                 ELSE total
         IN  AddLinkers(corp, d, rank, pg, next, linkers \ {potential_linker})

\* the inner loop without the "or len(...) == 0" clause
RECURSIVE AddLinkersOnly(_, _, _, _, _, _)
AddLinkersOnly(corp, d, rank, pg, total, linkers) ==
    IF linkers = {} THEN total
    ELSE LET potential_linker == CHOOSE q \in linkers : TRUE
             out  == Cardinality(corp[potential_linker])
             next ==
                 IF pg \in corp[potential_linker]
                 THEN RAdd(total, RDiv(RMul(d, rank[potential_linker]), IntR(out)))
                 ELSE total
         IN  AddLinkersOnly(corp, d, rank, pg, next, linkers \ {potential_linker})

Total_no_dangling(corp, d, rank, pg) ==
    AddLinkersOnly(corp, d, rank, pg,
                   RDiv(RSub(IntR(1), d), IntR(Cardinality(DOMAIN corp))),
                   DOMAIN corp)

\* the value assigned to new_rank[page]
Total(corp, d, rank, pg) ==
    AddLinkers(corp, d, rank, pg,
               RDiv(RSub(IntR(1), d), IntR(Cardinality(DOMAIN corp))),
               DOMAIN corp)

\* the for loop over the pages 1..k when it reads the vector it is writing
RECURSIVE RoundInPlaceFrom(_, _, _, _)
RoundInPlaceFrom(corp, d, rank, pg) ==
    IF pg \notin DOMAIN corp THEN rank
    ELSE RoundInPlaceFrom(corp, d,
                          [rank EXCEPT ![pg] = Total(corp, d, rank, pg)], pg + 1)

RoundInPlace(corp, d, rank) == RoundInPlaceFrom(corp, d, rank, 1)

\* for page in pagerank: new_rank[page] = total.  total reads pagerank only,
\* and pagerank is never the dict new_rank (it is 1/n at first and a copy of
\* new_rank afterwards), so every entry is computed from the same vector.
Round(corp, d, rank) ==
    [pg \in DOMAIN corp |-> Total(corp, d, rank, pg)]

\* any() in the place of all()
Converged_any(new, old) ==
    \E pg \in DOMAIN old :
        RLess(RAbs(RSub(new[pg], old[pg])), convergence_threshold)

\* all(abs(new_rank[page] - pagerank[page]) < convergence_threshold ...)
Converged(new, old) ==
    \A pg \in DOMAIN old :
        RLess(RAbs(RSub(new[pg], old[pg])), convergence_threshold)

(***************************************************************************)
(* The calls.                                                              *)
(***************************************************************************)
Calls == {"crawl", "transition_model", "sample_pagerank", "iterate_pagerank"}

\* sample counts a caller may pass: nothing in the code restricts them
SampleCounts == -1 .. MaxSamples

Idle ==
    /\ pc = "call"
    /\ distribution = <<>>
    /\ sample = 0
    /\ i = 0
    /\ pagerank = <<>>
    /\ new_rank = <<>>
    /\ result = <<>>

InitCrawl ==
    /\ call = "crawl"
    /\ directory \in Directories
    /\ corpus = <<>>
    /\ damping_factor = IntR(0)
    /\ page = 0
    /\ n = 0
    /\ Idle

InitTransitionModel ==
    /\ call = "transition_model"
    /\ directory = NoDirectory
    /\ corpus \in LinkGraphs(MaxPages)
    /\ damping_factor \in Dampings
    /\ page \in DOMAIN corpus
    /\ n = 0
    /\ Idle

InitSample ==
    /\ call = "sample_pagerank"
    /\ directory = NoDirectory
    /\ corpus \in LinkGraphs(MaxWalkPages)
    /\ damping_factor \in Dampings
    /\ page = 0
    /\ n \in SampleCounts
    /\ Idle

InitIterate ==
    /\ call = "iterate_pagerank"
    /\ directory = NoDirectory
    /\ corpus \in LinkGraphs(MaxPages)
    /\ damping_factor \in Dampings
    /\ page = 0
    /\ n = 0
    /\ Idle

Init == InitCrawl \/ InitTransitionModel \/ InitSample \/ InitIterate

\* crawl(directory)
Crawl ==
    /\ call = "crawl" /\ pc = "call"
    /\ result' = crawl(directory)
    /\ pc' = "returned"
    /\ UNCHANGED <<call, directory, corpus, damping_factor, page, n,
                   distribution, sample, i, pagerank, new_rank>>

\* transition_model(corpus, page, damping_factor)
TransitionModel ==
    /\ call = "transition_model" /\ pc = "call"
    /\ distribution' = transition_model(corpus, page, damping_factor)
    /\ result' = distribution'
    /\ pc' = "returned"
    /\ UNCHANGED <<call, directory, corpus, damping_factor, page, n,
                   sample, i, pagerank, new_rank>>

\* sample_pagerank, up to the loop: the counters and the first page
\* (random.choice of an empty list raises IndexError)
SampleBegin ==
    /\ call = "sample_pagerank" /\ pc = "call"
    /\ IF DOMAIN corpus = {}
       THEN /\ pc' = "raised"
            /\ UNCHANGED <<pagerank, sample>>
       ELSE /\ pagerank' = [pg \in DOMAIN corpus |-> IntR(0)]
            /\ sample' \in DOMAIN corpus
            /\ pc' = "loop"
    /\ UNCHANGED <<call, directory, corpus, damping_factor, page, n,
                   distribution, i, new_rank, result>>

\* one iteration of "for _ in range(n)"
SampleStep ==
    /\ call = "sample_pagerank" /\ pc = "loop"
    /\ i < n
    /\ pagerank' = [pagerank EXCEPT ![sample] = RAdd(@, IntR(1))]
    /\ distribution' = transition_model(corpus, sample, damping_factor)
    /\ sample' \in Choices(distribution')
    /\ i' = i + 1
    /\ UNCHANGED <<call, pc, directory, corpus, damping_factor, page, n,
                   new_rank, result>>

\* after the loop: the division by n (ZeroDivisionError for n = 0) and the return
SampleFinish ==
    /\ call = "sample_pagerank" /\ pc = "loop"
    /\ ~(i < n)
    /\ IF n = 0
       THEN /\ pc' = "raised"
            /\ UNCHANGED <<pagerank, result>>
       ELSE /\ pagerank' = Frequencies(pagerank, n)
            /\ result' = pagerank'
            /\ pc' = "returned"
    /\ UNCHANGED <<call, directory, corpus, damping_factor, page, n,
                   distribution, sample, i, new_rank>>

\* iterate_pagerank, up to the loop (1 / n raises ZeroDivisionError for an
\* empty corpus)
IterateBegin ==
    /\ call = "iterate_pagerank" /\ pc = "call"
    /\ IF DOMAIN corpus = {}
       THEN /\ pc' = "raised"
            /\ UNCHANGED <<pagerank, new_rank>>
       ELSE /\ pagerank' = [pg \in DOMAIN corpus |->
                               RDiv(IntR(1), IntR(Cardinality(DOMAIN corpus)))]
            /\ new_rank' = [pg \in DOMAIN corpus |-> IntR(0)]
            /\ pc' = "loop"
    /\ UNCHANGED <<call, directory, corpus, damping_factor, page, n,
                   distribution, sample, i, result>>

\* one round of "while True": the new ranks, the test, and the break or the copy
IterateRound ==
    /\ call = "iterate_pagerank" /\ pc = "loop"
    /\ new_rank' = Round(corpus, damping_factor, pagerank)
    /\ IF CommonDen(new_rank') > MaxDen
       THEN /\ pc' = "unexplored"
            /\ UNCHANGED pagerank
       ELSE IF Converged(new_rank', pagerank)
       THEN /\ pc' = "break"
            /\ UNCHANGED pagerank
       ELSE /\ pagerank' = new_rank'
            /\ pc' = "loop"
    /\ UNCHANGED <<call, directory, corpus, damping_factor, page, n,
                   distribution, sample, i, result>>

\* return pagerank
IterateReturn ==
    /\ call = "iterate_pagerank" /\ pc = "break"
    /\ result' = pagerank
    /\ pc' = "returned"
    /\ UNCHANGED <<call, directory, corpus, damping_factor, page, n,
                   distribution, sample, i, pagerank, new_rank>>

Next ==
    \/ Crawl
    \/ TransitionModel
    \/ SampleBegin
    \/ SampleStep
    \/ SampleFinish
    \/ IterateBegin
    \/ IterateRound
    \/ IterateReturn

Spec == Init /\ [][Next]_vars

\* the interpreter runs a call to its end: a step that can be taken is taken
FairSpec == Spec /\ WF_vars(Next)

(***************************************************************************)
(* Properties.                                                             *)
(***************************************************************************)
Uniform(corp) ==
    [pg \in DOMAIN corp |-> RDiv(IntR(1), IntR(Cardinality(DOMAIN corp)))]

Zeros(corp) == [pg \in DOMAIN corp |-> IntR(0)]

\* C1: for a damping factor d = dn/dd in (0,1) and a page of the graph,
\* transition_model returns a mapping over exactly the N pages; when the page
\* has L >= 1 links a linked page has mass (1-d)/N + d/L and any other page
\* (1-d)/N, and when it has none every page has mass 1/N.  The masses a/b are
\* compared with these values by cross-multiplication.
TransitionMasses ==
    (call = "transition_model" /\ pc = "returned" /\ InUnitInterval(damping_factor))
    => /\ DOMAIN distribution = DOMAIN corpus
       /\ \A key \in DOMAIN corpus :
            LET N  == Cardinality(DOMAIN corpus)
                L  == Cardinality(corpus[page])
                dn == damping_factor[1]
                dd == damping_factor[2]
                a  == distribution[key][1]
                b  == distribution[key][2]
            IN  IF L >= 1
                THEN IF key \in corpus[page]
                     THEN a * (dd * N * L) = b * ((dd - dn) * L + dn * N)
                     ELSE a * (dd * N) = b * (dd - dn)
                ELSE a * N = b

\* a page with links was queried, and some page is not among them
TransitionMassesWitness ==
    /\ call = "transition_model" /\ pc = "returned"
    /\ InUnitInterval(damping_factor)
    /\ Cardinality(corpus[page]) = 1
    /\ Cardinality(DOMAIN corpus) = 3

\* C2: for a damping factor in (0,1) and any page of a valid link graph,
\* dangling or not, the masses transition_model returns sum to 1.
TransitionSumsToOne ==
    (call = "transition_model" /\ pc = "returned" /\ InUnitInterval(damping_factor))
    => RSum(distribution) = IntR(1)

\* a dangling page was queried in a graph that has other pages with links
TransitionSumsToOneWitness ==
    /\ call = "transition_model" /\ pc = "returned"
    /\ InUnitInterval(damping_factor)
    /\ corpus[page] = {}
    /\ \E q \in DOMAIN corpus : corpus[q] # {}

\* C3: in sample_pagerank with n >= 1, after k iterations of the loop the
\* visit counters are integers in 0..k that sum to k, and the vector returned
\* sums to 1 with every value count/n for an integer count in 0..n.
SampleCounting ==
    (call = "sample_pagerank" /\ n >= 1)
    => /\ pc = "loop" =>
            /\ RSum(pagerank) = IntR(i)
            /\ \A pg \in DOMAIN pagerank :
                   pagerank[pg][2] = 1 /\ pagerank[pg][1] \in 0 .. i
       /\ pc = "returned" =>
            /\ i = n
            /\ RSum(result) = IntR(1)
            /\ \A pg \in DOMAIN result :
                   \E count \in 0 .. n : result[pg][1] * n = count * result[pg][2]

\* a walk of at least two steps that visited two pages has returned
SampleCountingWitness ==
    /\ call = "sample_pagerank" /\ pc = "returned"
    /\ n >= 2
    /\ InUnitInterval(damping_factor)
    /\ \E p1, p2 \in DOMAIN result :
           p1 # p2 /\ result[p1][1] > 0 /\ result[p2][1] > 0

\* C4: in iterate_pagerank with a damping factor in (0,1), the vector held at
\* the start of every round, the vector computed in every round and the
\* vector returned each sum to 1.
IterateMassConserved ==
    (/\ call = "iterate_pagerank"
     /\ InUnitInterval(damping_factor)
     /\ pc \in {"loop", "break", "returned", "unexplored"})
    => /\ RSum(pagerank) = IntR(1)
       /\ new_rank = Zeros(corpus) \/ RSum(new_rank) = IntR(1)
       /\ pc = "returned" => RSum(result) = IntR(1)

\* the graph {A: {}, B: {A}} has gone through several rounds and returned
IterateMassConservedWitness ==
    /\ call = "iterate_pagerank" /\ pc = "returned"
    /\ InUnitInterval(damping_factor)
    /\ corpus = <<{}, {1}>>
    /\ result # Uniform(corpus)

\* new_rank(p) as the recurrence states it, from the vector rank
Recurrence(corp, d, rank, pg) ==
    LET N        == Cardinality(DOMAIN corp)
        linkers  == {q \in DOMAIN corp : pg \in corp[q]}
        dangling == {q \in DOMAIN corp : corp[q] = {}}
        shares   == [q \in linkers |->
                        RDiv(rank[q], IntR(Cardinality(corp[q])))]
        spread   == [q \in dangling |-> RDiv(rank[q], IntR(N))]
    IN  RAdd(RAdd(RDiv(RSub(IntR(1), d), IntR(N)),
                  RMul(d, RSum(shares))),
             RMul(d, RSum(spread)))

\* C5: in every round, the new rank of every page p is
\* (1-d)/N + d * sum(rank(q)/outdegree(q), q links to p)
\*         + d * sum(rank(q)/N, q dangling),
\* with rank the complete vector of the previous round.
IterateRecurrence ==
    [][(call = "iterate_pagerank" /\ pc = "loop")
       => \A pg \in DOMAIN corpus :
              new_rank'[pg] = Recurrence(corpus, damping_factor, pagerank, pg)]_vars

\* a second or later round has been computed on a graph with a dangling
\* page, a page with links, and a page the latter does not link to
IterateRecurrenceWitness ==
    /\ call = "iterate_pagerank" /\ pc \in {"loop", "break"}
    /\ new_rank # Zeros(corpus)
    /\ pagerank # Uniform(corpus)
    /\ \E q \in DOMAIN corpus : corpus[q] = {}
    /\ \E q \in DOMAIN corpus :
           corpus[q] # {} /\ (DOMAIN corpus \ {q}) \ corpus[q] # {}

Stopped == {"returned", "raised", "unexplored"}

\* C6: iterate_pagerank never runs forever: every call eventually stops, with
\* a vector or with an error.  (The code has no convergence-failure outcome;
\* a run that leaves the range of the model counts as stopped here.)
IterateTerminates ==
    (call = "iterate_pagerank") ~> (pc \in Stopped)

\* C7: a call with a damping factor outside (0,1), or sample_pagerank with
\* n <= 0, never returns a result.
ConfigRejected ==
    (pc = "returned" /\ call \in {"transition_model", "sample_pagerank",
                                  "iterate_pagerank"})
    => /\ InUnitInterval(damping_factor)
       /\ call = "sample_pagerank" => n >= 1

\* C8: in the graph crawl returns, the outbound set of every page is a subset
\* of the pages without the page itself; a target that is no page is in no
\* outbound set, and a document whose only target is itself has none.
CrawlWellFormed ==
    (call = "crawl" /\ pc = "returned")
    => \A filename \in DOMAIN result :
          /\ result[filename] \subseteq DOMAIN result \ {filename}
          /\ directory.contents[filename] = {filename} => result[filename] = {}

\* one document links to itself only, another to a file that is no page
CrawlWellFormedWitness ==
    /\ call = "crawl" /\ pc = "returned"
    /\ \E f1, f2 \in DOMAIN result :
          /\ directory.contents[f1] = {f1}
          /\ result[f1] = {}
          /\ directory.contents[f2] = {0, f1}
          /\ result[f2] = {f1}

\* C9: a round leaves the loop if and only if every page's new rank differs
\* from its previous rank by less than 0.001; otherwise the new vector
\* replaces the previous one and the loop goes on.
IterateLeavesIffConverged ==
    [][(call = "iterate_pagerank" /\ pc = "loop" /\ pc' # "unexplored")
       => LET moved(pg) == RAbs(RSub(new_rank'[pg], pagerank[pg]))
              still     == \A pg \in DOMAIN corpus :
                               RLess(moved(pg), <<1, ThresholdDen>>)
          IN  /\ pc' = "break" <=> still
              /\ ~still => pc' = "loop" /\ pagerank' = new_rank']_vars

\* the loop was left after at least one round that did not converge
IterateLeavesIffConvergedWitness ==
    /\ call = "iterate_pagerank" /\ pc = "break"
    /\ InUnitInterval(damping_factor)
    /\ pagerank # Uniform(corpus)
    /\ new_rank # pagerank

\* C10: when the test passes, iterate_pagerank returns the vector computed by
\* the last round (the new_rank that passed the test).
IterateReturnsLastRound ==
    (call = "iterate_pagerank" /\ pc = "returned" /\ InUnitInterval(damping_factor))
    => result = new_rank

====
